---------------------------- MODULE Spec2Model ----------------------------
(***************************************************************************)
(* Model of query_colors_db (src/query_colors_db.py): a single pass over  *)
(* a SQLite file that prints a report about table dominant_colors.        *)
(*                                                                         *)
(* Text is modelled as a sequence of one-character strings.  A printed     *)
(* line is a tuple whose first element names the line and whose other     *)
(* elements are the values interpolated into it.  Timestamps in the table *)
(* are valid epoch seconds (the data model the tool relies on) and the    *)
(* local time zone is UTC.                                                *)
(***************************************************************************)
EXTENDS Integers, Sequences, FiniteSets, TLC

(***************************************************************************)
(* Bounds of the model.                                                    *)
(***************************************************************************)
\* number of candidate rows of dominant_colors; the table is any subset
MaxRows == 8

\* candidate values of db_path
Paths == {"colors.db", "other.db"}

(***************************************************************************)
(* Generic helpers.                                                        *)
(***************************************************************************)
Range(s) == {s[i] : i \in 1..Len(s)}

Min(a, b) == IF a < b THEN a ELSE b

\* a slice that stops one character early
Take_short(s, n) == SubSeq(s, 1, Min(n - 1, Len(s)))

\* Python slice s[:n]
Take(s, n) == SubSeq(s, 1, Min(n, Len(s)))

(***************************************************************************)
(* Candidate content of the column colors.                                *)
(***************************************************************************)
\* [{"hex":"#FF0000"}]
OneHex == <<"[", "{", "\"", "h", "e", "x", "\"", ":", "\"", "#", "F", "F", "0", "0", "0", "0", "\"", "}", "]">>

\* not valid json
NotJson == <<"n", "o", "t", " ", "v", "a", "l", "i", "d", " ", "j", "s", "o", "n">>

\* []
EmptyArrayText == <<"[", "]">>

\* [{"rgb":"1"}]
NoHex == <<"[", "{", "\"", "r", "g", "b", "\"", ":", "\"", "1", "\"", "}", "]">>

\* [ ]
SpacedEmptyArray == <<"[", " ", "]">>

\* [7]
NumberArray == <<"[", "7", "]">>

\* [{"hex":"#00FF00"},{"hex":"#0000FF"}]
TwoHex == <<"[", "{", "\"", "h", "e", "x", "\"", ":", "\"", "#", "0", "0", "F", "F", "0", "0", "\"", "}", ",", "{", "\"", "h", "e", "x", "\"", ":", "\"", "#", "0", "0", "0", "0", "F", "F", "\"", "}", "]">>

\* two JSON documents glued together, 74 characters: not one JSON value
LongNotJson == TwoHex \o TwoHex

\* a value of the column: SQL NULL or a text
Null == [isNull |-> TRUE, text |-> <<>>]

Text(s) == [isNull |-> FALSE, text |-> s]

ColorsPool ==
    << Text(OneHex), Text(NotJson), Text(EmptyArrayText), Null,
       Text(NoHex), Text(LongNotJson), Text(SpacedEmptyArray),
       Text(NumberArray), Text(<<>>), Text(TwoHex) >>

(***************************************************************************)
(* json.loads on the JSON subset: arrays, objects, strings without        *)
(* escapes, unsigned integers, null/true/false, blanks between tokens.    *)
(* A parse result is [ok, val, pos]: pos is the index after the value.    *)
(***************************************************************************)
JsonWs == {" "}

JsonDigits == {"0", "1", "2", "3", "4", "5", "6", "7", "8", "9"}

JsonLiterals == << <<"n", "u", "l", "l">>, <<"t", "r", "u", "e">>, <<"f", "a", "l", "s", "e">> >>

JList(items) == [t |-> "list", items |-> items]

JDict(keys, vals) == [t |-> "dict", keys |-> keys, vals |-> vals]

JStr(s) == [t |-> "str", s |-> s]

JNum(d) == [t |-> "num", digits |-> d]

JLit(l) == [t |-> "lit", name |-> l]

ParseFail == [ok |-> FALSE, val |-> [t |-> "none"], pos |-> 0]

ParseOk(v, p) == [ok |-> TRUE, val |-> v, pos |-> p]

RECURSIVE SkipWs(_, _)
SkipWs(s, i) ==
    IF i <= Len(s) /\ s[i] \in JsonWs THEN SkipWs(s, i + 1) ELSE i

\* index of the closing quote of a string whose content starts at i, or 0
RECURSIVE ScanString(_, _)
ScanString(s, i) ==
    IF i > Len(s) THEN 0
    ELSE IF s[i] = "\"" THEN i
    ELSE ScanString(s, i + 1)

\* index after the run of digits that starts at i
RECURSIVE ScanDigits(_, _)
ScanDigits(s, i) ==
    IF i <= Len(s) /\ s[i] \in JsonDigits THEN ScanDigits(s, i + 1) ELSE i

MatchAt(s, i, lit) ==
    /\ i + Len(lit) - 1 <= Len(s)
    /\ SubSeq(s, i, i + Len(lit) - 1) = lit

RECURSIVE ParseValue(_, _)
RECURSIVE ParseItems(_, _, _)
RECURSIVE ParseMembers(_, _, _, _)

ParseValue(s, i0) ==
    LET i == SkipWs(s, i0) IN
    IF i > Len(s) THEN ParseFail
    ELSE IF s[i] = "[" THEN
        LET j == SkipWs(s, i + 1) IN
        IF j <= Len(s) /\ s[j] = "]" THEN ParseOk(JList(<<>>), j + 1)
        ELSE ParseItems(s, i + 1, <<>>)
    ELSE IF s[i] = "{" THEN
        LET j == SkipWs(s, i + 1) IN
        IF j <= Len(s) /\ s[j] = "}" THEN ParseOk(JDict(<<>>, <<>>), j + 1)
        ELSE ParseMembers(s, i + 1, <<>>, <<>>)
    ELSE IF s[i] = "\"" THEN
        LET e == ScanString(s, i + 1) IN
        IF e = 0 THEN ParseFail
        ELSE ParseOk(JStr(SubSeq(s, i + 1, e - 1)), e + 1)
    ELSE IF s[i] \in JsonDigits THEN
        LET e == ScanDigits(s, i) IN
        ParseOk(JNum(SubSeq(s, i, e - 1)), e)
    ELSE IF \E k \in 1..Len(JsonLiterals) : MatchAt(s, i, JsonLiterals[k]) THEN
        LET k == CHOOSE k \in 1..Len(JsonLiterals) : MatchAt(s, i, JsonLiterals[k]) IN
        ParseOk(JLit(JsonLiterals[k]), i + Len(JsonLiterals[k]))
    ELSE ParseFail

ParseItems(s, i, acc) ==
    LET r == ParseValue(s, i) IN
    IF ~r.ok THEN ParseFail
    ELSE
        LET j == SkipWs(s, r.pos) IN
        IF j > Len(s) THEN ParseFail
        ELSE IF s[j] = "," THEN ParseItems(s, j + 1, Append(acc, r.val))
        ELSE IF s[j] = "]" THEN ParseOk(JList(Append(acc, r.val)), j + 1)
        ELSE ParseFail

ParseMembers(s, i, keys, vals) ==
    LET k == SkipWs(s, i) IN
    IF k > Len(s) \/ s[k] # "\"" THEN ParseFail
    ELSE
        LET e == ScanString(s, k + 1) IN
        IF e = 0 THEN ParseFail
        ELSE
            LET c == SkipWs(s, e + 1) IN
            IF c > Len(s) \/ s[c] # ":" THEN ParseFail
            ELSE
                LET r == ParseValue(s, c + 1) IN
                IF ~r.ok THEN ParseFail
                ELSE
                    LET j == SkipWs(s, r.pos)
                        ks == Append(keys, SubSeq(s, k + 1, e - 1))
                        vs == Append(vals, r.val)
                    IN
                    IF j > Len(s) THEN ParseFail
                    ELSE IF s[j] = "," THEN ParseMembers(s, j + 1, ks, vs)
                    ELSE IF s[j] = "}" THEN ParseOk(JDict(ks, vs), j + 1)
                    ELSE ParseFail

\* json.loads(colors): a JSONDecodeError is the result ParseFail
json_loads(s) ==
    LET r == ParseValue(s, 1) IN
    IF r.ok /\ SkipWs(s, r.pos) > Len(s) THEN r ELSE ParseFail

(***************************************************************************)
(* Python operations on a parsed value.  A raised exception is the result *)
(* with ok = FALSE.                                                        *)
(***************************************************************************)
HexKey == <<"h", "e", "x">>

NotAvailable == JStr(<<"N", "/", "A">>)

\* len(color_data): TypeError for a number, None or a boolean
PyLen(v) ==
    IF v.t = "list" THEN [ok |-> TRUE, n |-> Len(v.items)]
    ELSE IF v.t = "dict" THEN [ok |-> TRUE, n |-> Cardinality(Range(v.keys))]
    ELSE IF v.t = "str" THEN [ok |-> TRUE, n |-> Len(v.s)]
    ELSE [ok |-> FALSE, n |-> 0]

\* color_data[0]: KeyError for a dict (its keys are strings)
PyFirst(v) ==
    IF v.t = "list" /\ Len(v.items) > 0 THEN [ok |-> TRUE, val |-> v.items[1]]
    ELSE IF v.t = "str" /\ Len(v.s) > 0 THEN [ok |-> TRUE, val |-> JStr(<<v.s[1]>>)]
    ELSE [ok |-> FALSE, val |-> [t |-> "none"]]

\* a lookup that never finds the key
PyGet_default(v, key, default) ==
    IF v.t # "dict" THEN [ok |-> FALSE, val |-> [t |-> "none"]]
    ELSE [ok |-> TRUE, val |-> default]

\* entry.get(key, default): AttributeError unless entry is a dict
PyGet(v, key, default) ==
    IF v.t # "dict" THEN [ok |-> FALSE, val |-> [t |-> "none"]]
    ELSE IF \E k \in 1..Len(v.keys) : v.keys[k] = key
         THEN LET last == CHOOSE k \in 1..Len(v.keys) :
                              /\ v.keys[k] = key
                              /\ \A m \in 1..Len(v.keys) : v.keys[m] = key => m <= k
              IN [ok |-> TRUE, val |-> v.vals[last]]
         ELSE [ok |-> TRUE, val |-> default]

\* number of characters of the raw value shown when it cannot be handled
RawPrefixLen == 50

\* lines 74-83: the lines printed for the column colors of one record
ColorLines(colors) ==
    IF ~colors.isNull /\ colors.text # <<>> /\ colors.text # EmptyArrayText THEN
        LET r        == json_loads(colors.text)
            fallback == <<"color_raw", Take(colors.text, RawPrefixLen)>>
        IN
        IF ~r.ok THEN <<fallback>>
        ELSE
            LET n == PyLen(r.val) IN
            IF ~n.ok THEN <<fallback>>
            ELSE IF n.n = 0 THEN << <<"color_count", 0>> >>
            ELSE
                LET first == PyFirst(r.val) IN
                IF ~first.ok THEN << <<"color_count", n.n>>, fallback >>
                ELSE
                    LET g == PyGet(first.val, HexKey, NotAvailable) IN
                    IF ~g.ok THEN << <<"color_count", n.n>>, fallback >>
                    ELSE << <<"color_count", n.n>>, <<"primary", g.val>> >>
    ELSE << <<"color_none">> >>

(***************************************************************************)
(* Number formatting.                                                      *)
(***************************************************************************)
\* num/den rounded to the nearest integer, a tie going to the even one
RoundDiv(num, den) ==
    LET q == num \div den
        r == num % den
    IN IF 2 * r < den THEN q
       ELSE IF 2 * r > den THEN q + 1
       ELSE IF q % 2 = 0 THEN q ELSE q + 1

\* the percentage cut off after one decimal instead of rounded
Percent_truncated(count, total) ==
    IF total = 0 THEN [ok |-> FALSE, tenths |-> 0]
    ELSE [ok |-> TRUE, tenths |-> (count * 1000) \div total]

\* f"{count/total_count*100:.1f}" in tenths of a percent; a zero total
\* raises ZeroDivisionError
Percent(count, total) ==
    IF total = 0 THEN [ok |-> FALSE, tenths |-> 0]
    ELSE [ok |-> TRUE, tenths |-> RoundDiv(count * 1000, total)]

BytesPerKB == 1024

\* f"{db_size / 1024:.2f}" in hundredths of a KB
SizeKB(bytes) == RoundDiv(bytes * 100, BytesPerKB)

\* datetime.fromtimestamp(t).strftime('%Y-%m-%d %H:%M:%S')
FormatTime(t) ==
    LET days == t \div 86400
        secs == t % 86400
        z    == days + 719468
        era  == z \div 146097
        doe  == z - era * 146097
        yoe  == (doe - doe \div 1460 + doe \div 36524 - doe \div 146096) \div 365
        doy  == doe - (365 * yoe + yoe \div 4 - yoe \div 100)
        mp   == (5 * doy + 2) \div 153
        d    == doy - (153 * mp + 2) \div 5 + 1
        m    == IF mp < 10 THEN mp + 3 ELSE mp - 9
        y    == yoe + era * 400 + (IF m <= 2 THEN 1 ELSE 0)
    IN [year |-> y, month |-> m, day |-> d,
        hour |-> secs \div 3600, minute |-> (secs % 3600) \div 60,
        second |-> secs % 60]

(***************************************************************************)
(* The rows of dominant_colors.  Row i is identified by its file_path.    *)
(***************************************************************************)
RowIds == 1..MaxRows

StatusPool == <<"extracted", "pending", "error", "processing">>

StatusOf(i) == StatusPool[(i % Len(StatusPool)) + 1]

\* 1700000000 is 2023-11-14 22:13:20 UTC; rows i and i + 5 tie
UpdatedAt(i) == 1700000000 + 86400 * ((i * 3) % 5)

CreatedAt(i) == UpdatedAt(i) - 3600 * (i % 3)

ColorsOf(i) == ColorsPool[((i - 1) % Len(ColorsPool)) + 1]

FilePath(i) == <<"image", i>>

(***************************************************************************)
(* The queries of the report over a set of row ids.                       *)
(***************************************************************************)
\* SELECT COUNT(*) FROM dominant_colors
CountAll(rows) == Cardinality(rows)

\* SELECT COUNT(*) FROM dominant_colors WHERE status = s
CountWhere(rows, s) == Cardinality({i \in rows : StatusOf(i) = s})

\* the order in which GROUP BY status returns its groups (ascending text)
GroupOrder == <<"error", "extracted", "pending", "processing">>

RECURSIVE GroupFrom(_, _)
GroupFrom(rows, k) ==
    IF k > Len(GroupOrder) THEN <<>>
    ELSE IF CountWhere(rows, GroupOrder[k]) = 0 THEN GroupFrom(rows, k + 1)
    ELSE << <<GroupOrder[k], CountWhere(rows, GroupOrder[k])>> >>
             \o GroupFrom(rows, k + 1)

\* SELECT status, COUNT(*) FROM dominant_colors GROUP BY status
GroupByStatus(rows) == GroupFrom(rows, 1)

RecentLimit == 5

\* the same query with ascending order
RECURSIVE OrderByUpdatedAsc(_, _)
OrderByUpdatedAsc(rows, k) ==
    IF k = 0 \/ rows = {} THEN {<<>>}
    ELSE LET oldest == {i \in rows : \A j \in rows : UpdatedAt(i) <= UpdatedAt(j)}
         IN UNION { {<<i>> \o t : t \in OrderByUpdatedAsc(rows \ {i}, k - 1)}
                    : i \in oldest }

\* ORDER BY updated_at DESC LIMIT k: every sequence the query may return,
\* rows of equal updated_at coming in any order
RECURSIVE OrderByUpdatedDesc(_, _)
OrderByUpdatedDesc(rows, k) ==
    IF k = 0 \/ rows = {} THEN {<<>>}
    ELSE LET newest == {i \in rows : \A j \in rows : UpdatedAt(j) <= UpdatedAt(i)}
         IN UNION { {<<i>> \o t : t \in OrderByUpdatedDesc(rows \ {i}, k - 1)}
                    : i \in newest }

(***************************************************************************)
(* The catalog of the database.                                            *)
(***************************************************************************)
ColorsTable == "dominant_colors"

\* candidate results of SELECT name FROM sqlite_master WHERE type='table'
Catalogs ==
    { <<>>, <<ColorsTable>>, <<"app_settings">>, <<ColorsTable, "app_settings">> }

\* PRAGMA table_info(name): (name, declared type) of each column
TableInfo(name) ==
    IF name = ColorsTable
    THEN << <<"file_path", "TEXT">>, <<"colors", "TEXT">>,
            <<"created_at", "INTEGER">>, <<"updated_at", "INTEGER">>,
            <<"status", "TEXT">> >>
    ELSE << <<"key", "TEXT">>, <<"value", "TEXT">> >>

(***************************************************************************)
(* Exceptions.                                                             *)
(***************************************************************************)
\* subclasses of sqlite3.Error a connect or an execute may raise
SqliteErrors == {"sqlite3.OperationalError", "sqlite3.DatabaseError"}

\* other subclasses of Exception raised by the steps of the report
OtherErrors == {"OSError", "ZeroDivisionError"}

\* the clause for sqlite3.Error left out: nothing is a database error
IsSqliteError_none(e) == FALSE

\* except sqlite3.Error
IsSqliteError(e) == e \in SqliteErrors

\* except Exception
IsException(e) == e \in SqliteErrors \cup OtherErrors

(***************************************************************************)
(* State.                                                                  *)
(***************************************************************************)
VARIABLES
    db_path,        \* the argument of query_colors_db
    file,           \* the file at db_path: [exists, catalog, rows, size]
    pc,             \* the step about to run
    conn,           \* "none", "open" or "closed"
    total_count,    \* the local total_count, -1 while unassigned
    recent_files,   \* the local recent_files: row ids in the fetched order
    idx,            \* position of the loop over recent_files
    exc,            \* the exception in flight, or "none"
    out,            \* the lines printed so far
    ops,            \* the database operations performed so far
    steps,          \* the steps started so far
    failed,         \* the step that raised, or "none"
    raised,         \* the exception that step raised, or "none"
    handlers        \* number of except clauses executed

vars == <<db_path, file, pc, conn, total_count, recent_files, idx, exc, out,
          ops, steps, failed, raised, handlers>>

\* the size in bytes of a database file with the given tables: the header
\* page and one page of 4096 bytes per table
FileSizeOf(catalog) == 4096 * (1 + Len(catalog))

NoFile == [exists |-> FALSE, catalog |-> <<>>, rows |-> {}, size |-> 0]

Init ==
    /\ db_path \in Paths
    /\ \/ file = NoFile
       \/ \E c \in Catalogs :
            \E rs \in (IF ColorsTable \in Range(c) THEN SUBSET RowIds ELSE {{}}) :
                file = [exists |-> TRUE, catalog |-> c, rows |-> rs,
                        size |-> FileSizeOf(c)]
    /\ pc = "check"
    /\ conn = "none"
    /\ total_count = -1
    /\ recent_files = <<>>
    /\ idx = 0
    /\ exc = "none"
    /\ out = <<>>
    /\ ops = <<>>
    /\ steps = <<>>
    /\ failed = "none"
    /\ raised = "none"
    /\ handlers = 0

\* one database operation, the table or status it names, and whether it
\* completed
Op(name, arg, ok) == [op |-> name, arg |-> arg, ok |-> ok]

\* an exception leaves the try block: control goes to the except clauses
Raise(step, e) ==
    /\ exc' = e
    /\ failed' = step
    /\ raised' = e
    /\ pc' = "except"

NoRaise == UNCHANGED <<exc, failed, raised>>

\* the existence check left out
PathExists_always == TRUE

\* os.path.exists(db_path)
PathExists == file.exists

\* the return after the not-found message left out
ExistenceCheck_noReturn ==
    /\ pc = "check"
    /\ steps' = Append(steps, "check")
    /\ out' = IF ~file.exists
              THEN Append(out, <<"not_found", db_path>>)
              ELSE out \o << <<"querying", db_path>>, <<"rule">> >>
    /\ pc' = "open"
    /\ UNCHANGED <<db_path, file, conn, total_count, recent_files, idx, exc,
                   ops, failed, raised, handlers>>

\* lines 15-20: the existence check and the banner
ExistenceCheck ==
    /\ pc = "check"
    /\ steps' = Append(steps, "check")
    /\ IF ~PathExists
       THEN /\ out' = Append(out, <<"not_found", db_path>>)
            /\ pc' = "done"
       ELSE /\ out' = out \o << <<"querying", db_path>>, <<"rule">> >>
            /\ pc' = "open"
    /\ UNCHANGED <<db_path, file, conn, total_count, recent_files, idx, exc,
                   ops, failed, raised, handlers>>

\* lines 24-25: sqlite3.connect creates the file when it is missing
Open ==
    /\ pc = "open"
    /\ steps' = Append(steps, "open")
    /\ \/ /\ conn' = "open"
          /\ file' = [file EXCEPT !.exists = TRUE]
          /\ ops' = Append(ops, Op("connect", "", TRUE))
          /\ pc' = "schema"
          /\ NoRaise
       \/ \E e \in SqliteErrors :
            /\ ops' = Append(ops, Op("connect", "", FALSE))
            /\ Raise("open", e)
            /\ UNCHANGED <<conn, file>>
    /\ UNCHANGED <<db_path, total_count, recent_files, idx, out, handlers>>

\* lines 32-37 for one table: its name, then its columns
TableLines(name) ==
    << <<"table", name>> >>
      \o [k \in 1..Len(TableInfo(name)) |->
            <<"column", TableInfo(name)[k][1], TableInfo(name)[k][2]>>]

RECURSIVE SchemaLines(_, _)
SchemaLines(tables, n) ==
    IF n = 0 THEN <<>>
    ELSE SchemaLines(tables, n - 1) \o TableLines(tables[n])

TableInfoOps(tables, n) == [k \in 1..n |-> Op("table_info", tables[k], TRUE)]

\* lines 28-37: the catalog query, then PRAGMA table_info per table;
\* query number f fails (0: none does)
SchemaListing ==
    /\ pc = "schema"
    /\ steps' = Append(steps, "schema")
    /\ LET tables == file.catalog IN
       \/ /\ out' = out \o << <<"schema_header">> >> \o SchemaLines(tables, Len(tables))
          /\ ops' = ops \o <<Op("tables", "", TRUE)>> \o TableInfoOps(tables, Len(tables))
          /\ pc' = "total"
          /\ NoRaise
       \/ \E e \in SqliteErrors, f \in 1..(1 + Len(tables)) :
            /\ IF f = 1
               THEN /\ out' = Append(out, <<"schema_header">>)
                    /\ ops' = Append(ops, Op("tables", "", FALSE))
               ELSE /\ out' = out \o << <<"schema_header">> >>
                                  \o SchemaLines(tables, f - 2)
                                  \o << <<"table", tables[f - 1]>> >>
                    /\ ops' = ops \o <<Op("tables", "", TRUE)>>
                                  \o TableInfoOps(tables, f - 2)
                                  \o <<Op("table_info", tables[f - 1], FALSE)>>
            /\ Raise("schema", e)
    /\ UNCHANGED <<db_path, file, conn, total_count, recent_files, idx, handlers>>

\* lines 40-42: a missing table makes the query raise
TotalCount ==
    /\ pc = "total"
    /\ steps' = Append(steps, "total")
    /\ \/ /\ ColorsTable \in Range(file.catalog)
          /\ total_count' = CountAll(file.rows)
          /\ out' = Append(out, <<"total", CountAll(file.rows)>>)
          /\ ops' = Append(ops, Op("total", ColorsTable, TRUE))
          /\ pc' = "status"
          /\ NoRaise
       \/ \E e \in SqliteErrors :
            /\ ColorsTable \notin Range(file.catalog) => e = "sqlite3.OperationalError"
            /\ ops' = Append(ops, Op("total", ColorsTable, FALSE))
            /\ Raise("total", e)
            /\ UNCHANGED <<total_count, out>>
    /\ UNCHANGED <<db_path, file, conn, recent_files, idx, handlers>>

StatusLines(groups) ==
    [k \in 1..Len(groups) |-> <<"status", groups[k][1], groups[k][2]>>]

\* lines 45-49
StatusBreakdown ==
    /\ pc = "status"
    /\ steps' = Append(steps, "status")
    /\ \/ /\ out' = out \o << <<"status_header">> >>
                        \o StatusLines(GroupByStatus(file.rows))
          /\ ops' = Append(ops, Op("group", ColorsTable, TRUE))
          /\ pc' = "size"
          /\ NoRaise
       \/ \E e \in SqliteErrors :
            /\ ops' = Append(ops, Op("group", ColorsTable, FALSE))
            /\ Raise("status", e)
            /\ UNCHANGED out
    /\ UNCHANGED <<db_path, file, conn, total_count, recent_files, idx, handlers>>

\* the file size reported after the recent records instead of before
FileSize_late ==
    /\ pc = "size"
    /\ pc' = "recent"
    /\ UNCHANGED <<db_path, file, conn, total_count, recent_files, idx, exc,
                   out, ops, steps, failed, raised, handlers>>

\* lines 52-53: os.path.getsize may raise OSError
FileSize ==
    /\ pc = "size"
    /\ steps' = Append(steps, "size")
    /\ \/ /\ out' = Append(out, <<"size", SizeKB(file.size)>>)
          /\ pc' = "recent"
          /\ NoRaise
       \/ /\ Raise("size", "OSError")
          /\ UNCHANGED out
    /\ UNCHANGED <<db_path, file, conn, total_count, recent_files, idx, ops,
                   handlers>>

\* lines 56-63: the header is printed before the query runs
RecentQuery ==
    /\ pc = "recent"
    /\ steps' = Append(steps, "recent")
    /\ out' = Append(out, <<"recent_header">>)
    /\ \/ \E res \in OrderByUpdatedDesc(file.rows, RecentLimit) :
            /\ recent_files' = res
            /\ idx' = 1
            /\ ops' = Append(ops, Op("recent", ColorsTable, TRUE))
            /\ pc' = IF res = <<>> THEN "summary" ELSE "records"
            /\ NoRaise
       \/ \E e \in SqliteErrors :
            /\ ops' = Append(ops, Op("recent", ColorsTable, FALSE))
            /\ Raise("recent", e)
            /\ UNCHANGED <<recent_files, idx>>
    /\ UNCHANGED <<db_path, file, conn, total_count, handlers>>

\* lines 66-83: the lines printed for one fetched row
RecordLines(i) ==
    << <<"file", FilePath(i)>>,
       <<"rec_status", StatusOf(i)>>,
       <<"created", FormatTime(CreatedAt(i))>>,
       <<"updated", FormatTime(UpdatedAt(i))>> >>
      \o ColorLines(ColorsOf(i))

\* lines 65-83: one iteration of the loop over recent_files
RecentRecord ==
    /\ pc = "records"
    /\ idx <= Len(recent_files)
    /\ out' = out \o RecordLines(recent_files[idx])
    /\ idx' = idx + 1
    /\ pc' = IF idx = Len(recent_files) THEN "summary" ELSE "records"
    /\ UNCHANGED <<db_path, file, conn, total_count, recent_files, exc, ops,
                   steps, failed, raised, handlers>>

SummaryStatuses == <<"extracted", "pending", "error">>

SummaryOps(n) == [k \in 1..n |-> Op("count_where", SummaryStatuses[k], TRUE)]

SummaryLine(status, rows, total) ==
    <<status, CountWhere(rows, status), Percent(CountWhere(rows, status), total).tenths>>

\* lines 86-98: three count queries, the header, then the three lines;
\* the first line already divides by total_count
SuccessRate ==
    /\ pc = "summary"
    /\ steps' = Append(steps, "summary")
    /\ \/ /\ ops' = ops \o SummaryOps(3)
          /\ IF Percent(0, total_count).ok
             THEN /\ out' = out \o << <<"summary_header">> >>
                                \o [k \in 1..3 |->
                                      SummaryLine(SummaryStatuses[k], file.rows, total_count)]
                  /\ pc' = "close"
                  /\ NoRaise
             ELSE /\ out' = Append(out, <<"summary_header">>)
                  /\ Raise("summary", "ZeroDivisionError")
       \/ \E e \in SqliteErrors, f \in 1..3 :
            /\ ops' = ops \o SummaryOps(f - 1) \o <<Op("count_where", SummaryStatuses[f], FALSE)>>
            /\ Raise("summary", e)
            /\ UNCHANGED out
    /\ UNCHANGED <<db_path, file, conn, total_count, recent_files, idx, handlers>>

\* line 100
Close ==
    /\ pc = "close"
    /\ steps' = Append(steps, "close")
    /\ conn' = "closed"
    /\ ops' = Append(ops, Op("close", "", TRUE))
    /\ pc' = "done"
    /\ UNCHANGED <<db_path, file, total_count, recent_files, idx, exc, out,
                   failed, raised, handlers>>

\* lines 102-103
HandleSqliteError ==
    /\ pc = "except"
    /\ IsSqliteError(exc)
    /\ out' = Append(out, <<"db_error", exc>>)
    /\ handlers' = handlers + 1
    /\ exc' = "none"
    /\ pc' = "done"
    /\ UNCHANGED <<db_path, file, conn, total_count, recent_files, idx, ops,
                   steps, failed, raised>>

\* lines 104-105
HandleException ==
    /\ pc = "except"
    /\ ~IsSqliteError(exc)
    /\ IsException(exc)
    /\ out' = Append(out, <<"unknown_error", exc>>)
    /\ handlers' = handlers + 1
    /\ exc' = "none"
    /\ pc' = "done"
    /\ UNCHANGED <<db_path, file, conn, total_count, recent_files, idx, ops,
                   steps, failed, raised>>

Next ==
    \/ ExistenceCheck
    \/ Open
    \/ SchemaListing
    \/ TotalCount
    \/ StatusBreakdown
    \/ FileSize
    \/ RecentQuery
    \/ RecentRecord
    \/ SuccessRate
    \/ Close
    \/ HandleSqliteError
    \/ HandleException

Spec == Init /\ [][Next]_vars

(***************************************************************************)
(* Vocabulary of the properties.                                           *)
(***************************************************************************)
Last(q) == q[Len(q)]

IsPrefix(p, q) == Len(p) <= Len(q) /\ SubSeq(q, 1, Len(p)) = p

\* the steps of the report that neither ended early nor were skipped
StepOrder ==
    <<"check", "open", "schema", "total", "status", "size", "recent",
      "summary", "close">>

ErrorKinds == {"not_found", "db_error", "unknown_error"}

\* the step that prints a line of the given kind
LineStep(kind) ==
    CASE kind \in {"not_found", "querying", "rule"} -> 1
      [] kind \in {"schema_header", "table", "column"} -> 3
      [] kind = "total" -> 4
      [] kind \in {"status_header", "status"} -> 5
      [] kind = "size" -> 6
      [] kind \in {"recent_header", "file", "rec_status", "created",
                   "updated", "color_count", "primary", "color_raw",
                   "color_none"} -> 7
      [] kind \in {"summary_header", "extracted", "pending", "error"} -> 8
      [] OTHER -> 0

\* the step that performs a database operation
OpStep(name) ==
    CASE name = "connect" -> 2
      [] name \in {"tables", "table_info"} -> 3
      [] name = "total" -> 4
      [] name = "group" -> 5
      [] name = "recent" -> 7
      [] name = "count_where" -> 8
      [] name = "close" -> 9
      [] OTHER -> 0

HasLine(kind) == \E k \in 1..Len(out) : out[k][1] = kind

ErrorLineCount == Cardinality({k \in 1..Len(out) : out[k][1] \in ErrorKinds})

Completed(name, arg) ==
    \E k \in 1..Len(ops) : ops[k].op = name /\ ops[k].arg = arg /\ ops[k].ok

\* every query of steps 3 to 8 ran and returned
AllQueriesCompleted ==
    /\ Completed("tables", "")
    /\ \A k \in 1..Len(file.catalog) : Completed("table_info", file.catalog[k])
    /\ Completed("total", ColorsTable)
    /\ Completed("group", ColorsTable)
    /\ Completed("recent", ColorsTable)
    /\ \A k \in 1..Len(SummaryStatuses) : Completed("count_where", SummaryStatuses[k])

(***************************************************************************)
(* C1: when the total row count read in step 4 is zero, the run does not  *)
(* end in a division error: once the three count queries of the summary   *)
(* have returned, the finished run shows the three summary lines and no   *)
(* error message.                                                          *)
(***************************************************************************)
C1_ZeroTotalDefined ==
    (pc = "done" /\ total_count = 0 /\ Completed("count_where", "error"))
        => /\ HasLine("extracted") /\ HasLine("pending") /\ HasLine("error")
           /\ ~HasLine("unknown_error")
           /\ ~HasLine("db_error")

(***************************************************************************)
(* C2: an error raised by the connect or by a later step is caught by     *)
(* exactly one except clause: a database error prints the database-error  *)
(* line with its detail, any other error the unknown-error line; no step  *)
(* and no database operation follows the failing step, and no exception   *)
(* is left without a clause that catches it.                              *)
(***************************************************************************)
C2_State ==
    /\ handlers <= 1
    /\ pc = "except" => (exc = raised /\ (exc \in SqliteErrors \/ IsException(exc)))
    /\ failed # "none" => (Last(steps) = failed /\ conn # "closed")
    /\ (failed # "none" /\ pc = "done") =>
          /\ handlers = 1
          /\ exc = "none"
          /\ ErrorLineCount = 1
          /\ Last(out) = <<(IF raised \in SqliteErrors THEN "db_error"
                                                       ELSE "unknown_error"), raised>>
    /\ failed = "none" => handlers = 0

C2_Step == failed # "none" => (steps' = steps /\ ops' = ops /\ failed' = failed)

C2_OneHandlerNoPropagation == [](C2_State) /\ [][C2_Step]_vars

C2_Witness ==
    /\ pc = "done"
    /\ failed = "size"
    /\ raised = "OSError"
    /\ handlers = 1
    /\ Last(out) = <<"unknown_error", "OSError">>

(***************************************************************************)
(* C3: while the path does not exist, no database operation has been      *)
(* performed and no step after the existence check has run; the finished  *)
(* run has printed the not-found line with the path and nothing else.     *)
(***************************************************************************)
C3_NotFoundNoDatabaseWork ==
    ~file.exists =>
        /\ pc \in {"check", "done"}
        /\ ops = <<>>
        /\ conn = "none"
        /\ IsPrefix(steps, <<"check">>)
        /\ pc = "done" => out = << <<"not_found", db_path>> >>

C3_Witness ==
    /\ ~file.exists
    /\ pc = "done"
    /\ out = << <<"not_found", db_path>> >>
    /\ ops = <<>>

(***************************************************************************)
(* C7: no step of any run changes the file at db_path (its existence, its *)
(* catalog, its rows, its size) or the path; only the output grows.       *)
(***************************************************************************)
C7_DatabaseUnchanged ==
    [][file' = file /\ db_path' = db_path /\ IsPrefix(out, out')]_vars

C7_Witness ==
    /\ pc = "done"
    /\ conn = "closed"
    /\ file.exists
    /\ Cardinality(file.rows) >= 2
    /\ HasLine("error")

(***************************************************************************)
(* C9: in a finished run the connection is closed exactly when every      *)
(* query of steps 3 to 8 completed without error, and the close is then   *)
(* the last database operation.                                            *)
(***************************************************************************)
C9_ClosedIffQueriesCompleted ==
    pc = "done" =>
        /\ (conn = "closed") <=> AllQueriesCompleted
        /\ conn = "closed" => Last(ops).op = "close"

(***************************************************************************)
(* C10: the steps start in the fixed order, each at most once; printed    *)
(* lines and database operations follow the order of their steps and      *)
(* belong to steps already started; an error message is the last line of  *)
(* a finished run, and a run that stopped early ends with exactly one.    *)
(***************************************************************************)
C10_FixedStepOrder ==
    /\ IsPrefix(steps, StepOrder)
    /\ \A k \in 1..Len(out) :
          \/ /\ out[k][1] \in {"db_error", "unknown_error"}
             /\ k = Len(out)
             /\ pc = "done"
          \/ /\ LineStep(out[k][1]) \in 1..Len(steps)
             /\ k > 1 => LineStep(out[k - 1][1]) <= LineStep(out[k][1])
             /\ out[k][1] = "not_found" => (k = Len(out) /\ pc = "done")
    /\ \A k \in 1..Len(ops) :
          /\ OpStep(ops[k].op) \in 1..Len(steps)
          /\ k > 1 => OpStep(ops[k - 1].op) <= OpStep(ops[k].op)
    /\ (pc = "done" /\ conn # "closed") =>
          (ErrorLineCount = 1 /\ Last(out)[1] \in ErrorKinds)
    /\ (pc = "done" /\ conn = "closed") =>
          (ErrorLineCount = 0 /\ steps = StepOrder)

C10_Witness ==
    /\ pc = "done"
    /\ steps = StepOrder
    /\ Last(out)[1] = "error"
    /\ Last(ops).op = "close"

(***************************************************************************)
(* Vocabulary of the properties about the rows.                            *)
(***************************************************************************)
CountStatus(s) == Cardinality({i \in file.rows : StatusOf(i) = s})

\* p tenths of a percent is count/total*100 rounded to one decimal
RoundedPercent(p, count, total) ==
    LET d == p * total - 1000 * count
    IN 2 * (IF d < 0 THEN -d ELSE d) <= total

\* step 8 finished without error
SummaryPrinted == pc \in {"close", "done"} /\ failed = "none" /\ file.exists

IsFileLine(l) == l[1] = "file"

\* the rows listed so far in the recent-files section, in printed order
Listed ==
    LET fl == SelectSeq(out, IsFileLine)
    IN [k \in 1..Len(fl) |-> fl[k][2][2]]

\* the loop over the fetched records has ended
RecentDone == pc = "summary" \/ "summary" \in Range(steps)

\* one iteration of the loop over the fetched records
RecordStep == pc = "records" /\ idx' = idx + 1

\* the lines that iteration printed after the four lines of the record
ColorOutput == SubSeq(out', Len(out) + 5, Len(out'))

\* the column holds a value: neither NULL nor the empty text
Present(c) == ~c.isNull /\ c.text # <<>>

\* the value is no JSON, or JSON other than an empty container or an
\* array that starts with an object
NotColorJson(c) ==
    LET r == json_loads(c.text) IN
    \/ ~r.ok
    \/ r.val.t \notin {"list", "dict", "str"}
    \/ r.val.t = "dict" /\ r.val.keys # <<>>
    \/ r.val.t = "str" /\ r.val.s # <<>>
    \/ r.val.t = "list" /\ r.val.items # <<>> /\ r.val.items[1].t # "dict"

\* the hex field of a parsed object, or the placeholder
HexOrPlaceholder(d) ==
    IF \E k \in 1..Len(d.keys) : d.keys[k] = <<"h", "e", "x">>
    THEN d.vals[CHOOSE k \in 1..Len(d.keys) :
                    /\ d.keys[k] = <<"h", "e", "x">>
                    /\ \A m \in (k + 1)..Len(d.keys) : d.keys[m] # <<"h", "e", "x">>]
    ELSE [t |-> "str", s |-> <<"N", "/", "A">>]

(***************************************************************************)
(* C4: when step 8 finished for a table of N > 0 rows, E extracted, P     *)
(* pending, R error and N = E+P+R, the last three lines are the counts E, *)
(* P, R, they sum to the total printed in step 4, and each percentage is  *)
(* count/N*100 rounded to one decimal.                                     *)
(***************************************************************************)
C4_SummaryCountsAndPercentages ==
    LET N == Cardinality(file.rows)
        E == CountStatus("extracted")
        P == CountStatus("pending")
        R == CountStatus("error")
        n == Len(out)
    IN (SummaryPrinted /\ N > 0 /\ N = E + P + R) =>
         /\ n >= 4
         /\ out[n - 3] = <<"summary_header">>
         /\ out[n - 2][1] = "extracted" /\ out[n - 2][2] = E
         /\ out[n - 1][1] = "pending" /\ out[n - 1][2] = P
         /\ out[n][1] = "error" /\ out[n][2] = R
         /\ RoundedPercent(out[n - 2][3], E, N)
         /\ RoundedPercent(out[n - 1][3], P, N)
         /\ RoundedPercent(out[n][3], R, N)
         /\ \E t \in 1..n :
               /\ out[t][1] = "total"
               /\ out[t][2] = N
               /\ out[n - 2][2] + out[n - 1][2] + out[n][2] = out[t][2]

C4_Witness ==
    /\ SummaryPrinted
    /\ Cardinality(file.rows) = 3
    /\ CountStatus("pending") = 2
    /\ CountStatus("error") = 1
    /\ out[Len(out) - 1] = <<"pending", 2, 667>>
    /\ out[Len(out)] = <<"error", 1, 333>>

(***************************************************************************)
(* C5: the recent-files section lists at most 5 rows of the table, each   *)
(* once, in descending order of updated_at; once the section has ended it *)
(* lists 5 rows, or every row when the table holds fewer than 5.          *)
(***************************************************************************)
C5_RecentAtMostFiveDescending ==
    LET l == Listed IN
    /\ Len(l) <= 5
    /\ \A k \in 1..(Len(l) - 1) : UpdatedAt(l[k]) >= UpdatedAt(l[k + 1])
    /\ \A a, b \in 1..Len(l) : a # b => l[a] # l[b]
    /\ Range(l) \subseteq file.rows
    /\ RecentDone =>
          /\ Cardinality(file.rows) < 5 => Range(l) = file.rows
          /\ Cardinality(file.rows) >= 5 => Len(l) = 5

C5_Witness ==
    /\ RecentDone
    /\ Cardinality(file.rows) = 7
    /\ Len(Listed) = 5
    /\ UpdatedAt(Listed[1]) = UpdatedAt(Listed[2])
    /\ UpdatedAt(Listed[2]) > UpdatedAt(Listed[3])

(***************************************************************************)
(* C6: a listed record whose colors value is present, is not "[]" and     *)
(* cannot be handled as color JSON ends with the line of the first 50     *)
(* characters of the raw value, raises nothing and prints no error line;  *)
(* the loop goes on, every fetched record is listed, the only error of    *)
(* step 7 is the one of its query, and a run without error ends with the  *)
(* summary.                                                                *)
(***************************************************************************)
C6_Step ==
    LET c == ColorsOf(recent_files[idx]) IN
    (RecordStep /\ Present(c) /\ c.text # <<"[", "]">> /\ NotColorJson(c)) =>
        /\ IsPrefix(out, out')
        /\ Last(out') = <<"color_raw",
                          SubSeq(c.text, 1, IF Len(c.text) > 50 THEN 50 ELSE Len(c.text))>>
        /\ pc' \in {"records", "summary"}
        /\ exc' = "none"
        /\ failed' = "none"
        /\ ErrorLineCount' = 0

C6_State ==
    /\ failed = "recent" => (Last(ops).op = "recent" /\ ~Last(ops).ok)
    /\ RecentDone => Listed = recent_files
    /\ (pc = "done" /\ failed = "none" /\ file.exists) =>
          (HasLine("summary_header") /\ Last(out)[1] = "error")

C6_MalformedColorsRecovered == [][C6_Step]_vars /\ [](C6_State)

C6_Witness ==
    /\ pc = "done"
    /\ conn = "closed"
    /\ \E k \in 1..Len(out) :
          /\ out[k][1] = "color_raw"
          /\ Len(out[k][2]) = 50
          /\ \E j \in (k + 1)..Len(out) : out[j][1] = "file"

(***************************************************************************)
(* C8 as stated: a listed record whose colors value is present, is not    *)
(* "[]" and parses as JSON gets the line of the number of entries and the *)
(* line of the first entry's hex field or the placeholder; a record whose *)
(* value is absent or "[]" gets the no-color-data line.                   *)
(***************************************************************************)
C8_Original_Step ==
    LET c == ColorsOf(recent_files[idx])
        a == ColorOutput
    IN RecordStep =>
        /\ (Present(c) /\ c.text # <<"[", "]">> /\ json_loads(c.text).ok) =>
              /\ Len(a) = 2
              /\ a[1][1] = "color_count"
              /\ a[2][1] = "primary"
        /\ (~Present(c) \/ c.text = <<"[", "]">>) => a = << <<"color_none">> >>

C8_Amended_Step ==
    LET c == ColorsOf(recent_files[idx])
        a == ColorOutput
        r == json_loads(c.text)
    IN RecordStep =>
        /\ (/\ Present(c) /\ c.text # <<"[", "]">> /\ r.ok
            /\ r.val.t = "list" /\ r.val.items # <<>>
            /\ r.val.items[1].t = "dict") =>
              a = << <<"color_count", Len(r.val.items)>>,
                     <<"primary", HexOrPlaceholder(r.val.items[1])>> >>
        /\ (~Present(c) \/ c.text = <<"[", "]">>) => a = << <<"color_none">> >>

=============================================================================
